---- MODULE Spec2Model ----
(***************************************************************************)
(* Model of the batch job runner of the ESL error annotator                *)
(* (components/BatchProcessor.tsx, here src/unnamed/part_001).             *)
(*                                                                         *)
(* The component keeps React state (isProcessing, isPaused, progress,      *)
(* displayResults, batchAnnotations, latestResult) and two refs (stopRef,  *)
(* pauseRef).  processQueue is an async function: every `await` is a       *)
(* suspension point at which operator handlers (stop, pause, new batch,    *)
(* start) and other invocations of processQueue may run.  A loop is        *)
(* therefore modelled as a process with a program counter, one per         *)
(* invocation of processQueue; the refs and the React state are shared by  *)
(* all of them, exactly as in the component.                               *)
(*                                                                         *)
(* A step of the model is one task of the event loop: a click handler, the *)
(* load event of a file, or the continuation of a loop after a timer or an *)
(* awaited call, each with the microtasks it leaves behind.  An            *)
(* `await analyzeText(text)` whose call throws before its own first await  *)
(* resumes in such a microtask, so that the catch branch of processQueue   *)
(* belongs to the step that makes the call.                                *)
(***************************************************************************)
EXTENDS Integers, Sequences, FiniteSets, TLC

\* ---------------------------------------------------------------- bounds
MaxRuns == 2        \* invocations of processQueue in one session
MaxItems == 3       \* largest batch submitted
MaxTotal == 3       \* items submitted in one session, all batches together

\* ------------------------------------------------------ program constants
MAX_DISPLAY_HISTORY == 100

ERROR_TEXT == "Error processing this item."

\* ------------------------------------------------------------------ state
VARIABLES
    isProcessing,      \* useState(false)
    isPaused,          \* useState(false)
    progress,          \* useState({current, total, success, failed})
    displayResults,    \* useState<AnalysisResult[]>([])
    batchAnnotations,  \* useState<Annotation[]>([])
    latestResult,      \* useState<AnalysisResult | null>(null)
    stopRef,           \* useRef(false)
    pauseRef,          \* useRef(false)
    loops,             \* run -> activation record of processQueue
    nextRun,           \* number of processQueue invocations so far
    dispatched,        \* run -> texts passed to analyzeText, in call order
    submitted,         \* run -> texts passed to saveRecord, in call order
    completions,       \* run -> number of onComplete() calls
    hist,              \* run -> observations used to state the properties
    client,            \* activation of the retrying analyzeText
    call,              \* a call of one of the pure functions, with its result
    reads              \* item counts of the files whose FileReader is reading

\* the variables of the batch processor
rvars == <<isProcessing, isPaused, progress, displayResults, batchAnnotations,
           latestResult, stopRef, pauseRef, loops, nextRun, dispatched,
           submitted, completions, hist>>

vars == <<rvars, client, call, reads>>

Runs == 1..MaxRuns

Min(a, b) == IF a < b THEN a ELSE b

\* ------------------------------------------------------------ data values
\* latestResult = null
NullResult == [original_text |-> 0, corrected_text |-> "", annotations |-> <<>>]

\* no pure function has been called
NoCall == [fn |-> "none", pc |-> "none", arg |-> <<>>, ret |-> <<>>]

\* ------------------------------------------- the retrying classifier client
maxRetries == 5
baseDelay == 2000
JitterRange == 1000     \* Math.random() * 1000

\* values of Math.random() * 1000 that are tried
JitterSamples == {0, 500, JitterRange - 1}

\* What the awaited ai.models.generateContent call can lead to inside the try
\* block: "ok": a text that JSON.parse accepts; "429": the call rejects with
\* an error of status 429; "503": it rejects with an error that carries the
\* 503 in its message; "500": it rejects with an error of status 500;
\* "500text503": it rejects with status 500 and a message that quotes a 503
\* of an upstream server; "empty": the text is empty and 'Empty response
\* from AI' is thrown; "malformed": the text is not JSON and JSON.parse
\* throws a SyntaxError; "malformed429": as before, the message of the
\* SyntaxError quoting a piece of the text, or a position, that holds 429
ServiceAnswers ==
    {"ok", "429", "503", "500", "500text503", "empty", "malformed",
     "malformed429"}

\* The error object that reaches the catch block for answer a: its status
\* (0: the error has no status property) and its message, a sequence of
\* characters
ErrorOf(a) ==
    CASE a = "429" -> [status |-> 429, message |-> <<"b", "u", "s", "y">>]
      [] a = "503" -> [status |-> 0, message |-> <<":", "5", "0", "3">>]
      [] a = "500" -> [status |-> 500, message |-> <<"5", "0", "0">>]
      [] a = "500text503" ->
            [status |-> 500, message |-> <<"5", "0", "0", ":", "5", "0", "3">>]
      [] a = "empty" -> [status |-> 0, message |-> <<"E", "m", "p", "t", "y">>]
      [] a = "malformed" -> [status |-> 0, message |-> <<"x", "?">>]
      [] a = "malformed429" ->
            [status |-> 0, message |-> <<"x", "4", "2", "9", "?">>]

\* String.prototype.includes
Includes(message, part) ==
    \E i \in 1..Len(message) :
        /\ i + Len(part) - 1 <= Len(message)
        /\ SubSeq(message, i, i + Len(part) - 1) = part

RECURSIVE Pow2(_)
Pow2(n) == IF n = 0 THEN 1 ELSE 2 * Pow2(n - 1)

\* pc: "idle" (no call running), "calling" (generateContent awaited),
\* "waiting" (delay(waitTime) awaited), "returned", "thrown";
\* retries: the local counter; calls: generateContent calls made;
\* waits: delays awaited; lastWait: the latest waitTime, jitter included;
\* err: what was thrown ("max": Max retries exceeded);
\* lastAnswer: how the latest generateContent call settled
IdleClient == [pc |-> "idle", retries |-> 0, calls |-> 0, waits |-> 0,
               lastWait |-> 0, err |-> "none", lastAnswer |-> "none"]

\* analyzeText(text) up to its first await, the API key being set:
\* retries = 0 < maxRetries, generateContent is called
CallClient == [IdleClient EXCEPT !.pc = "calling", !.calls = 1]

\* isRateLimit || isServerOverload, for the error thrown on answer a:
\*   error.message?.includes('429') || error.status === 429
\*   error.message?.includes('503') || error.status === 503
IsRetryable(a) ==
    LET error == ErrorOf(a)
        isRateLimit ==
            Includes(error.message, <<"4", "2", "9">>) \/ error.status = 429
        isServerOverload ==
            Includes(error.message, <<"5", "0", "3">>) \/ error.status = 503
    IN isRateLimit \/ isServerOverload

\* variant: the delay grows linearly
WaitTime_Linear(n, jitter) == baseDelay * n + jitter

\* baseDelay * Math.pow(2, retries) + Math.random() * 1000
WaitTime(n, jitter) == baseDelay * Pow2(n) + jitter

\* variant: the failure of the last permitted attempt is rethrown at once
AfterAnswer_NoLastWait(c, a, jitter) ==
    IF a = "ok" THEN [c EXCEPT !.pc = "returned", !.lastAnswer = a]
    ELSE IF IsRetryable(a) /\ c.retries + 1 < maxRetries
         THEN [c EXCEPT !.retries = @ + 1,
                        !.lastWait = WaitTime(c.retries + 1, jitter),
                        !.waits = @ + 1,
                        !.pc = "waiting",
                        !.lastAnswer = a]
         ELSE [c EXCEPT !.pc = "thrown", !.err = a, !.lastAnswer = a]

\* the awaited generateContent call of activation c settles with answer a
AfterAnswer(c, a, jitter) ==
    IF a = "ok" THEN [c EXCEPT !.pc = "returned", !.lastAnswer = a]
    ELSE IF IsRetryable(a) /\ c.retries < maxRetries
         THEN [c EXCEPT !.retries = @ + 1,
                        !.lastWait = WaitTime(c.retries + 1, jitter),
                        !.waits = @ + 1,
                        !.pc = "waiting",
                        !.lastAnswer = a]
         ELSE [c EXCEPT !.pc = "thrown", !.err = a, !.lastAnswer = a]

\* variant: one attempt too many
AfterWait_OneMore(c) ==
    IF c.retries <= maxRetries
    THEN [c EXCEPT !.pc = "calling", !.calls = @ + 1]
    ELSE [c EXCEPT !.pc = "thrown", !.err = "max"]

\* delay(waitTime) is over: `continue`, the while condition is tested
AfterWait(c) ==
    IF c.retries < maxRetries
    THEN [c EXCEPT !.pc = "calling", !.calls = @ + 1]
    ELSE [c EXCEPT !.pc = "thrown", !.err = "max"]

ZeroProgress == [current |-> 0, total |-> 0, success |-> 0, failed |-> 0]

\* The batch of n work items: item i carries text i.
Items(n) == [i \in 1..n |-> i]

\* An Annotation, reduced to the two fields the statistics read
Ann(e, m) == [error_code |-> e, macro_code |-> m]

\* What the remote service answers for a text when the call succeeds: the
\* first text has one annotation, the second none, the third two, and so on
\* in turn.
ServiceAnnotations(text) ==
    IF text % 3 = 1 THEN <<Ann("E1", "M1")>>
    ELSE IF text % 3 = 2 THEN <<>>
    ELSE <<Ann("E2", "M1"), Ann("E1", "M1")>>

\* The function-valued members that every object created by {} inherits from
\* Object.prototype.
ObjectPrototypeMembers ==
    {"constructor", "toString", "toLocaleString", "valueOf", "hasOwnProperty",
     "isPrototypeOf", "propertyIsEnumerable", "__defineGetter__",
     "__defineSetter__", "__lookupGetter__", "__lookupSetter__"}

\* String(f) for the inherited member under key: the source text of a
\* native function; `constructor` is the function named Object.
FunctionText(key) ==
    IF key = "constructor" THEN "function Object() { [native code] }"
    ELSE "function " \o key \o "() { [native code] }"

\* counts[key] = (counts[key] || 0) + 1, counts having been created by {}.
\* A count is a number; for a key that names an inherited member the value
\* read is that function (truthy), so `+ 1` is a string concatenation: the
\* value stored is the string FunctionText(key) followed by "1", and every
\* later bump appends another "1". Under the key __proto__ the value
\* read is Object.prototype and the assignment of the resulting string to
\* the __proto__ accessor is ignored: nothing is stored.
Bump(counts, key) ==
    IF key = "__proto__" THEN counts
    ELSE IF key \in ObjectPrototypeMembers
    THEN IF key \in DOMAIN counts
         THEN [counts EXCEPT ![key] = @ \o "1"]
         ELSE counts @@ (key :> FunctionText(key) \o "1")
    ELSE IF key \in DOMAIN counts
         THEN [counts EXCEPT ![key] = @ + 1]
         ELSE counts @@ (key :> 1)

\* StatsSummary: the forEach over the first k annotations
RECURSIVE StatsFold(_, _)
StatsFold(annotations, k) ==
    IF k = 0 THEN [macroCounts |-> <<>>, microCounts |-> <<>>]
    ELSE LET acc == StatsFold(annotations, k - 1)
             ann == annotations[k]
         IN [macroCounts |-> Bump(acc.macroCounts, ann.macro_code),
             microCounts |-> Bump(acc.microCounts, ann.error_code)]

\* StatsSummary: the counts shown per macro code and per error code
Stats(annotations) ==
    LET acc == StatsFold(annotations, Len(annotations))
    IN [macroCounts |-> acc.macroCounts, microCounts |-> acc.microCounts,
        total |-> Len(annotations)]

\* geminiService.analyzeText on success: {original_text: text, ...result}
AnalyzeResult(text) ==
    [original_text |-> text, corrected_text |-> "corrected",
     annotations |-> ServiceAnnotations(text)]

\* the placeholder built in the catch branch
ErrorResult(text) ==
    [original_text |-> text, corrected_text |-> ERROR_TEXT, annotations |-> <<>>]

\* variant: the list of displayed results is never cut
Truncate_None(updated) == updated

\* updated.slice(0, MAX_DISPLAY_HISTORY)
Truncate(updated) == SubSeq(updated, 1, Min(Len(updated), MAX_DISPLAY_HISTORY))

\* variant: the list is cut one result short of the cap
PushResult_OneShort(result, prev) ==
    SubSeq(<<result>> \o prev, 1, Min(Len(prev) + 1, MAX_DISPLAY_HISTORY - 1))

\* setDisplayResults(prev => [result, ...prev].slice(0, MAX_DISPLAY_HISTORY))
PushResult(result, prev) == Truncate(<<result>> \o prev)

\* setProgress(prev => ({...prev, current: prev.current+1, success: prev.success+1}))
ProgressSuccess(prev) ==
    [prev EXCEPT !.current = @ + 1, !.success = @ + 1]

\* variant: a failure advances current only
ProgressFailure_NoFailed(prev) ==
    [prev EXCEPT !.current = @ + 1]

\* setProgress(prev => ({...prev, current: prev.current+1, failed: prev.failed+1}))
ProgressFailure(prev) ==
    [prev EXCEPT !.current = @ + 1, !.failed = @ + 1]

\* setProgress({current: 0, total: inputs.length, success: 0, failed: 0})
ProgressStart(n) == [current |-> 0, total |-> n, success |-> 0, failed |-> 0]

\* ------------------------------------------------------------- characters
QUOTE == "QUOTE"
LF == "LF"
CR == "CR"
SP == " "

\* String.prototype.trim: white space is removed at both ends
WhiteSpace == {SP, LF, CR}

RECURSIVE TrimStart(_)
TrimStart(t) ==
    IF t # <<>> /\ Head(t) \in WhiteSpace THEN TrimStart(Tail(t)) ELSE t

RECURSIVE TrimEnd(_)
TrimEnd(t) ==
    IF t # <<>> /\ t[Len(t)] \in WhiteSpace
    THEN TrimEnd(SubSeq(t, 1, Len(t) - 1))
    ELSE t

Trim(t) == TrimEnd(TrimStart(t))

\* ------------------------------------- analyzeText: the API configuration
\* What can stand in the field of the settings dialog when Save is pressed:
\* nothing, a blank, a URL (written "a"), a URL between blanks
UrlInputs == {<<>>, <<SP>>, <<"a">>, <<SP, "a", SP>>}

\* what localStorage holds under 'api_base_url' (<<>>: nothing, or the empty
\* string), and what the build defines as VITE_API_BASE_URL (<<>>: nothing)
ApiBaseUrls == {Trim(u) : u \in UrlInputs}

\* The fetch client between two calls. arg: the stored base URL, env: the
\* base URL of the build, ret: the number of requests sent to the backend so
\* far, calls: the number of analyzeText calls made so far, missing: how
\* many of them found no base URL
IdleFetch(url, env) ==
    [fn |-> "fetch", pc |-> "idle", arg |-> url, env |-> env,
     ret |-> 0, calls |-> 0, missing |-> 0]

\* getApiBaseUrl: the stored value if there is one, else that of the build
getApiBaseUrl(c) == IF c.arg # <<>> THEN c.arg ELSE c.env

\* variant: the request is sent without looking at the configuration
SendRequest_NoCheck(c) == [c EXCEPT !.pc = "fetching", !.ret = @ + 1]

\* analyzeText up to its first await: without a base URL it throws 'API URL
\* is missing', otherwise the POST request is sent
SendRequest(c) ==
    IF getApiBaseUrl(c) = <<>>
    THEN [c EXCEPT !.pc = "thrown"]
    ELSE [c EXCEPT !.pc = "fetching", !.ret = @ + 1]

\* the loop calls analyzeText
AnalyzeTextCalled(c) ==
    [SendRequest(c) EXCEPT
        !.calls = @ + 1,
        !.missing = IF getApiBaseUrl(c) = <<>> THEN @ + 1 ELSE @]

\* the call the loop makes with the configuration of c throws before its
\* first await
CallThrows(c) == AnalyzeTextCalled(c).pc = "thrown"

\* The fetch client when the loop has called analyzeText and control has
\* reached the next await that suspends the loop. A call that threw has been
\* handled by the catch branch of processQueue by then; pc is "fetching"
\* while a request is awaiting its answer.
CallMade(c) ==
    LET d == AnalyzeTextCalled(c)
    IN IF d.pc = "thrown" THEN [d EXCEPT !.pc = c.pc] ELSE d

\* App.handleSaveApiUrl: Save in the settings dialog, which the header opens
\* at any time, stores the trimmed content of the field
handleSaveApiUrl(input) ==
    /\ call' = [call EXCEPT !.arg = Trim(input)]
    /\ UNCHANGED <<rvars, client, reads>>

\* ------------------------------------------------------- loop activations
\* pc: position of the activation; idx: index of the item of the current
\* iteration; n: items.length; outc: the outcomes of the classifier calls
\* that have returned so far ("ok" or "err"), in order
IdleLoop == [pc |-> "idle", idx |-> 0, n |-> 0, outc |-> <<>>]

\* Observations about a run, used to state the properties:
\*   stopped:  stop has been requested while the run was active
\*   paused:   pause has been requested while the run was active
\*   stopK:    for the run the operator stopped (the latest one): number of
\*             its items dispatched when stop was requested, kept until a
\*             new batch is started or the results are reset (0: none)
\*   stopPoll: that stop request found the loop in the pause wait
\*   lastSave: what the run's latest saveRecord call returned ("none": no
\*             call has returned yet)
\*   shared:   the loop of another run has been under way during the run
NoHist == [stopped |-> FALSE, paused |-> FALSE, stopK |-> 0, stopPoll |-> FALSE,
           lastSave |-> "none", shared |-> FALSE]

RECURSIVE SumN(_)
SumN(k) == IF k = 0 THEN 0 ELSE loops[k].n + SumN(k - 1)

\* items submitted so far in the session
TotalItems == SumN(MaxRuns)

Active(r) == loops[r].pc \notin {"idle", "done"}

\* number of classifier calls that have been issued and have not returned
InFlight == Cardinality({r \in Runs : loops[r].pc = "analyze"})

\* A state of the batch processor in which nothing has been started, with
\* the record c of the function whose calls are followed
IdleWith(c) ==
    /\ isProcessing = FALSE
    /\ isPaused = FALSE
    /\ progress = ZeroProgress
    /\ displayResults = <<>>
    /\ batchAnnotations = <<>>
    /\ latestResult = NullResult
    /\ stopRef = FALSE
    /\ pauseRef = FALSE
    /\ loops = [r \in Runs |-> IdleLoop]
    /\ nextRun = 0
    /\ dispatched = [r \in Runs |-> <<>>]
    /\ submitted = [r \in Runs |-> <<>>]
    /\ completions = [r \in Runs |-> 0]
    /\ hist = [r \in Runs |-> NoHist]
    /\ client = IdleClient
    /\ call = c
    /\ reads = <<>>

\* The component is mounted, nothing has been started; the classifier is the
\* fetch client of geminiService, with or without a stored base URL. The
\* build defines none: with one defined getApiBaseUrl never yields the empty
\* string and every call goes the way it goes with a stored URL.
Init == \E url \in ApiBaseUrls : IdleWith(IdleFetch(url, <<>>))

\* the same, a base URL being stored, defined by the build, both or neither
InitConfig ==
    \E url \in ApiBaseUrls : \E env \in ApiBaseUrls :
        IdleWith(IdleFetch(url, env))

\* ------------------------------------------------------ operator handlers
\* The input section (text area / file input) is rendered only when
\* !isProcessing && displayResults.length === 0.
InputSectionShown == ~isProcessing /\ Len(displayResults) = 0

\* The control bar is rendered when isProcessing || displayResults.length > 0;
\* pause and stop buttons only when isProcessing, New Batch only when not.
ControlButtonsShown_Always == TRUE
ControlButtonsShown == isProcessing
NewBatchButtonShown == ~isProcessing /\ Len(displayResults) > 0

\* (variant for checking: processQueue leaves the pause flag as it finds it)
ProcessQueueEntry_KeepPause ==
    /\ isProcessing' = TRUE
    /\ stopRef' = FALSE
    /\ UNCHANGED <<pauseRef, isPaused>>

\* The statements of processQueue before its loop
ProcessQueueEntry ==
    /\ isProcessing' = TRUE
    /\ stopRef' = FALSE
    /\ pauseRef' = FALSE
    /\ isPaused' = FALSE

\* handleStart(inputs) followed by processQueue up to its first await that
\* does not settle in the same task: the state is reset, the flags are
\* cleared and the first item is passed to analyzeText. When analyzeText
\* throws before its own first await (throws = TRUE), `await analyzeText`
\* resumes in a microtask of the same task: the catch branch runs and the
\* 100 ms delay is the first await that lets other events in. The updates of
\* the catch branch are applied to the state handleStart has just set.
\* handleStart tests nothing: what guards there are stand in its callers.
HandleStartCall(n, throws) ==
    /\ nextRun < MaxRuns
    /\ LET r == nextRun + 1
           text == Items(n)[1]
       IN
        /\ nextRun' = r
        /\ displayResults' = IF throws
                             THEN PushResult(ErrorResult(text), <<>>)
                             ELSE <<>>
        /\ batchAnnotations' = <<>>
        /\ latestResult' = NullResult
        /\ progress' = IF throws
                       THEN ProgressFailure(ProgressStart(n))
                       ELSE ProgressStart(n)
        /\ ProcessQueueEntry
        /\ loops' = [loops EXCEPT ![r] =
                        IF throws
                        THEN [pc |-> "delay", idx |-> 1, n |-> n,
                              outc |-> <<"err">>]
                        ELSE [pc |-> "analyze", idx |-> 1, n |-> n,
                              outc |-> <<>>]]
        /\ dispatched' = [dispatched EXCEPT ![r] = <<Items(n)[1]>>]
        /\ hist' = [q \in Runs |->
                      [hist[q] EXCEPT
                          !.stopK = 0, !.stopPoll = FALSE,
                          !.shared = IF q = r THEN \E p \in Runs : Active(p)
                                     ELSE @ \/ Active(q)]]
        /\ UNCHANGED <<submitted, completions>>

\* handleStart with the fetch client: the first call throws when no base URL
\* is configured, otherwise its request is sent
HandleStart(n) ==
    /\ HandleStartCall(n, CallThrows(call))
    /\ call' = CallMade(call)

\* handleTextSubmit with n non-blank lines in the text area: the button is
\* part of the input section, handleStart runs in the click handler
handleTextSubmit(n) ==
    /\ InputSectionShown
    /\ HandleStart(n)
    /\ reads' = reads

\* handleFileUpload: a file with n non-blank lines is chosen in the file
\* input, which is part of the input section; the handler returns at
\* reader.readAsText(file) with the read under way. (A file without a
\* non-blank line, or one that is not valid JSON, only raises an alert when
\* it is loaded and changes nothing: n >= 1.)
handleFileUpload(n) ==
    /\ InputSectionShown
    /\ reads' = Append(reads, n)
    /\ UNCHANGED rvars

\* q without its k-th element
RemoveAt(q, k) == SubSeq(q, 1, k - 1) \o SubSeq(q, k + 1, Len(q))

\* reader.onload of the k-th read under way: the lines are parsed and
\* handleStart(validLines) is called, whatever is rendered by then
readerOnload(k) ==
    /\ k \in DOMAIN reads
    /\ HandleStart(reads[k])
    /\ reads' = RemoveAt(reads, k)

\* handleStop, confirm() answered yes
HandleStop ==
    /\ ControlButtonsShown
    /\ stopRef' = TRUE
    /\ isProcessing' = FALSE
    /\ hist' = [q \in Runs |->
                  IF Active(q)
                  THEN [hist[q] EXCEPT
                          !.stopped = TRUE,
                          !.stopK = IF q = nextRun THEN Len(dispatched[q]) ELSE 0,
                          !.stopPoll = (q = nextRun /\ loops[q].pc = "poll")]
                  ELSE hist[q]]
    /\ UNCHANGED <<isPaused, progress, displayResults, batchAnnotations,
                   latestResult, pauseRef, loops, nextRun, dispatched,
                   submitted, completions>>

\* the title of the pause button
PauseButtonTitle == IF isPaused THEN "Resume" ELSE "Pause"

\* setIsPaused(!isPaused): the value togglePause sets when it finds p
togglePause(p) == ~p

\* togglePause, the click handler of the pause button; the effect
\* `pauseRef.current = isPaused` runs with the commit of the click's render,
\* before any continuation of a loop
TogglePause ==
    /\ ControlButtonsShown
    /\ isPaused' = togglePause(isPaused)
    /\ pauseRef' = isPaused'
    /\ hist' = [q \in Runs |->
                  IF Active(q) /\ ~isPaused
                  THEN [hist[q] EXCEPT !.paused = TRUE]
                  ELSE hist[q]]
    /\ UNCHANGED <<isProcessing, progress, displayResults, batchAnnotations,
                   latestResult, stopRef, loops, nextRun, dispatched,
                   submitted, completions>>

\* handleNewBatch
HandleNewBatch ==
    /\ NewBatchButtonShown
    /\ displayResults' = <<>>
    /\ batchAnnotations' = <<>>
    /\ latestResult' = NullResult
    /\ progress' = ZeroProgress
    /\ hist' = [q \in Runs |->
                  [hist[q] EXCEPT !.stopK = 0, !.stopPoll = FALSE]]
    /\ UNCHANGED <<isProcessing, isPaused, stopRef, pauseRef, loops, nextRun,
                   dispatched, submitted, completions>>

\* ------------------------------------------------------- the dispatch loop
\* `if (stopRef.current) break;` at the top of an iteration
BreakAtTop == stopRef

\* variant: the loop does not look at the pause flag
PauseWait_Ignored == FALSE

\* `while (pauseRef.current)`
PauseWait == pauseRef

\* `if (stopRef.current) break;` inside the pause wait: it leaves the while
\* statement only, control continues at the try block
BreakPauseWait == stopRef

\* variant: the pause flag is looked at before the end of the queue
IterationTop_PauseFirst(l) ==
    IF BreakAtTop THEN "exit"
    ELSE IF PauseWait THEN "poll"
    ELSE IF l.idx = l.n THEN "exit"
    ELSE "analyze"

\* Where control goes when the loop of activation l asks for its next item:
\* the for-of is exhausted, or the iteration's top runs up to its first await.
IterationTop(l) ==
    IF l.idx = l.n THEN "exit"
    ELSE IF BreakAtTop THEN "exit"
    ELSE IF PauseWait THEN "poll"
    ELSE "analyze"

\* Where control goes when the 500 ms timer of the pause wait has fired.
PollWake ==
    IF PauseWait
    THEN IF BreakPauseWait THEN "analyze" ELSE "poll"
    ELSE "analyze"

\* variant: the parent is notified after every step of the loop
CompletionsAfter_EveryStep(r, target) == [completions EXCEPT ![r] = @ + 1]

\* `onComplete();` is the last statement of processQueue, after the for-of
CompletionsAfter(r, target) ==
    IF target = "exit" THEN [completions EXCEPT ![r] = @ + 1] ELSE completions

\* The control part of a loop step of run r that targets item i:
\*   "analyze": analyzeText(items[i]) is called and awaited
\*   "poll":    the loop sleeps 500 ms in the pause wait, item i pending
\*   "exit":    setIsProcessing(false); onComplete();
Control(r, target, i) ==
    /\ loops' = [loops EXCEPT ![r] =
                   [@ EXCEPT !.pc = IF target = "exit" THEN "done" ELSE target,
                             !.idx = IF target = "exit" THEN @ ELSE i]]
    /\ dispatched' = IF target = "analyze"
                     THEN [dispatched EXCEPT ![r] = Append(@, Items(loops[r].n)[i])]
                     ELSE dispatched
    /\ isProcessing' = IF target = "exit" THEN FALSE ELSE isProcessing
    /\ completions' = CompletionsAfter(r, target)
    /\ hist' = hist

\* A loop step of run r that passes item i to analyzeText when the call
\* throws before its own first await: `await analyzeText(text)` resumes in a
\* microtask of the same task, so the catch branch runs in this step and
\* the loop is next found awaiting the 100 ms delay.
ControlThrows(r, i) ==
    LET text == Items(loops[r].n)[i] IN
    /\ loops' = [loops EXCEPT ![r] =
                   [@ EXCEPT !.pc = "delay", !.idx = i,
                             !.outc = Append(@, "err")]]
    /\ dispatched' = [dispatched EXCEPT ![r] = Append(@, text)]
    /\ displayResults' = PushResult(ErrorResult(text), displayResults)
    /\ progress' = ProgressFailure(progress)
    /\ UNCHANGED <<isProcessing, isPaused, batchAnnotations, latestResult,
                   stopRef, pauseRef, nextRun, submitted, completions, hist>>

\* variant: no try/catch around the call, an exception ends processQueue
AnalyzeReturn_Abort(r, o) ==
    /\ loops[r].pc = "analyze"
    /\ loops' = [loops EXCEPT ![r] =
                   [@ EXCEPT !.pc = IF o = "ok" THEN "save" ELSE "done",
                             !.outc = Append(@, o)]]
    /\ submitted' = IF o = "ok"
                    THEN [submitted EXCEPT ![r] = Append(@, Items(loops[r].n)[loops[r].idx])]
                    ELSE submitted
    /\ UNCHANGED <<isProcessing, isPaused, progress, displayResults,
                   batchAnnotations, latestResult, stopRef, pauseRef, nextRun,
                   dispatched, completions, hist>>

\* `await analyzeText(text)` returns (o = "ok") or throws (o = "err")
AnalyzeReturn(r, o) ==
    /\ loops[r].pc = "analyze"
    /\ LET l == loops[r]
           text == Items(l.n)[l.idx]
       IN IF o = "ok"
          THEN \* saveRecord(result) is called and awaited
               /\ loops' = [loops EXCEPT ![r] =
                              [@ EXCEPT !.pc = "save", !.outc = Append(@, o)]]
               /\ submitted' = [submitted EXCEPT ![r] = Append(@, text)]
               /\ UNCHANGED <<progress, displayResults>>
          ELSE \* catch branch, then the 100 ms delay is awaited
               /\ displayResults' = PushResult(ErrorResult(text), displayResults)
               /\ progress' = ProgressFailure(progress)
               /\ loops' = [loops EXCEPT ![r] =
                              [@ EXCEPT !.pc = "delay", !.outc = Append(@, o)]]
               /\ UNCHANGED submitted
    /\ UNCHANGED <<isProcessing, isPaused, batchAnnotations, latestResult,
                   stopRef, pauseRef, nextRun, dispatched, completions, hist>>

\* What the insert into essay_analyses can do: answer with the inserted
\* rows, answer with {error}, or reject (network failure, missing table).
StoreOutcome == {"inserted", "error", "throws"}

\* variant: a store error is passed on to the caller
SaveRecord_Rethrow(so) == IF so = "inserted" THEN "data" ELSE "raise"

\* saveRecord: `if (error) throw error` and every other exception end in the
\* catch block, which returns null; "raise" would be an exception reaching
\* the caller
SaveRecord(so) == IF so = "inserted" THEN "data" ELSE "null"

\* `await saveRecord(result)` settles, the store having answered with so.
\* The call stands inside the try block of processQueue: a value (a record
\* or null) is ignored and the state is updated for a success, an exception
\* would be handled by the catch branch; then the 100 ms delay is awaited.
SaveReturn(r, so) ==
    /\ loops[r].pc = "save"
    /\ LET l == loops[r]
           text == Items(l.n)[l.idx]
           result == AnalyzeResult(text)
           ret == SaveRecord(so)
       IN /\ IF ret = "raise"
             THEN /\ displayResults' = PushResult(ErrorResult(text), displayResults)
                  /\ progress' = ProgressFailure(progress)
                  /\ UNCHANGED <<latestResult, batchAnnotations>>
             ELSE /\ latestResult' = result
                  /\ displayResults' = PushResult(result, displayResults)
                  /\ batchAnnotations' = batchAnnotations \o result.annotations
                  /\ progress' = ProgressSuccess(progress)
          /\ loops' = [loops EXCEPT ![r] = [@ EXCEPT !.pc = "delay"]]
          /\ hist' = [hist EXCEPT ![r] = [@ EXCEPT !.lastSave = ret]]
    /\ UNCHANGED <<isProcessing, isPaused, stopRef, pauseRef, nextRun,
                   dispatched, submitted, completions>>

\* The 100 ms delay is over: next iteration of the for-of, up to the next
\* await that does not settle in the same task. throws: an analyzeText call
\* made now throws before its first await.
DelayReturnCall(r, throws) ==
    /\ loops[r].pc = "delay"
    /\ IF IterationTop(loops[r]) = "analyze" /\ throws
       THEN ControlThrows(r, loops[r].idx + 1)
       ELSE /\ Control(r, IterationTop(loops[r]), loops[r].idx + 1)
            /\ UNCHANGED <<isPaused, progress, displayResults,
                           batchAnnotations, latestResult, stopRef, pauseRef,
                           nextRun, submitted>>

\* The 500 ms sleep of the pause wait is over, likewise
PollReturnCall(r, throws) ==
    /\ loops[r].pc = "poll"
    /\ IF PollWake = "analyze" /\ throws
       THEN ControlThrows(r, loops[r].idx)
       ELSE /\ Control(r, PollWake, loops[r].idx)
            /\ UNCHANGED <<isPaused, progress, displayResults,
                           batchAnnotations, latestResult, stopRef, pauseRef,
                           nextRun, submitted>>

\* the loop of run r calls analyzeText in this step
CallsAnalyzeText(r) == Len(dispatched'[r]) > Len(dispatched[r])

\* the 100 ms delay is over, the classifier being the fetch client
DelayReturn(r) ==
    /\ DelayReturnCall(r, CallThrows(call))
    /\ call' = IF CallsAnalyzeText(r) THEN CallMade(call) ELSE call

\* the 500 ms sleep of the pause wait is over, the classifier being the
\* fetch client
PollReturn(r) ==
    /\ PollReturnCall(r, CallThrows(call))
    /\ call' = IF CallsAnalyzeText(r) THEN CallMade(call) ELSE call

Outcome == {"ok", "err"}

\* The request run r has sent is answered: with a result (o = "ok"), or the
\* fetch rejects, the status is not 2xx or the body is not JSON (o = "err").
\* The client is idle again unless the request of another loop is pending.
FetchReturn(r, o) ==
    /\ call.pc = "fetching"
    /\ AnalyzeReturn(r, o)
    /\ call' = [call EXCEPT
                  !.pc = IF \E q \in Runs \ {r} : loops[q].pc = "analyze"
                         THEN "fetching" ELSE "idle"]

\* a continuation of the loop of run r is run by the event loop
LoopStep(r) ==
    /\ \/ \E o \in Outcome : FetchReturn(r, o)
       \/ \E so \in StoreOutcome : SaveReturn(r, so) /\ call' = call
       \/ DelayReturn(r)
       \/ PollReturn(r)
    /\ UNCHANGED <<client, reads>>

\* ---------------------------------------------------------- specification
\* Sessions of the batch processor: batches of 1..MaxItems items, at most
\* MaxRuns batches and MaxTotal items in a session, the files being read
\* included. The configuration the session starts with is kept; SpecConfig
\* below follows one batch while the configuration is changed.
RECURSIVE SumReads(_)
SumReads(k) == IF k = 0 THEN 0 ELSE reads[k] + SumReads(k - 1)

Room(n) ==
    /\ nextRun + Len(reads) < MaxRuns
    /\ TotalItems + SumReads(Len(reads)) + n <= MaxTotal

Start ==
    \E n \in 1..MaxItems : Room(n) /\ handleTextSubmit(n)

FileChosen ==
    \E n \in 1..MaxItems : Room(n) /\ handleFileUpload(n)

FileLoaded == \E k \in DOMAIN reads : readerOnload(k)

Next ==
    \/ Start /\ UNCHANGED client
    \/ FileChosen /\ UNCHANGED <<client, call>>
    \/ FileLoaded /\ UNCHANGED client
    \/ HandleStop /\ UNCHANGED <<client, call, reads>>
    \/ TogglePause /\ UNCHANGED <<client, call, reads>>
    \/ HandleNewBatch /\ UNCHANGED <<client, call, reads>>
    \/ \E r \in Runs : \E o \in Outcome : FetchReturn(r, o) /\ UNCHANGED <<client, reads>>
    \/ \E r \in Runs : \E so \in StoreOutcome : SaveReturn(r, so) /\ UNCHANGED <<client, call, reads>>
    \/ \E r \in Runs : DelayReturn(r) /\ UNCHANGED <<client, reads>>
    \/ \E r \in Runs : PollReturn(r) /\ UNCHANGED <<client, reads>>

Spec == Init /\ [][Next]_vars

\* Sessions in which no batch is started once stop has been requested and
\* one file is read at a time.
\* Timers fire and awaited calls settle: every continuation of a loop that
\* is ready to run is eventually run by the event loop.
StartLive == (\A q \in Runs : ~hist[q].stopped) /\ Start

FileChosenLive == reads = <<>> /\ FileChosen

FileLoadedLive == (\A q \in Runs : ~hist[q].stopped) /\ FileLoaded

NextLive ==
    \/ StartLive /\ UNCHANGED client
    \/ FileChosenLive /\ UNCHANGED <<client, call>>
    \/ FileLoadedLive /\ UNCHANGED client
    \/ HandleStop /\ UNCHANGED <<client, call, reads>>
    \/ TogglePause /\ UNCHANGED <<client, call, reads>>
    \/ HandleNewBatch /\ UNCHANGED <<client, call, reads>>
    \/ \E r \in Runs : \E o \in Outcome : FetchReturn(r, o) /\ UNCHANGED <<client, reads>>
    \/ \E r \in Runs : \E so \in StoreOutcome : SaveReturn(r, so) /\ UNCHANGED <<client, call, reads>>
    \/ \E r \in Runs : DelayReturn(r) /\ UNCHANGED <<client, reads>>
    \/ \E r \in Runs : PollReturn(r) /\ UNCHANGED <<client, reads>>

LiveSpec ==
    Init /\ [][NextLive]_vars /\ \A r \in Runs : WF_vars(LoopStep(r))

\* One batch and the configuration of the fetch client, which the settings
\* dialog saves at any time, between two steps of the loop included.
StartConfig ==
    /\ nextRun = 0
    /\ \E n \in 1..MaxItems : HandleStart(n)
    /\ reads' = reads

NextConfig ==
    \/ StartConfig /\ UNCHANGED client
    \/ HandleStop /\ UNCHANGED <<client, call, reads>>
    \/ TogglePause /\ UNCHANGED <<client, call, reads>>
    \/ HandleNewBatch /\ UNCHANGED <<client, call, reads>>
    \/ \E input \in UrlInputs : handleSaveApiUrl(input)
    \/ \E r \in Runs : \E o \in Outcome : FetchReturn(r, o) /\ UNCHANGED <<client, reads>>
    \/ \E r \in Runs : \E so \in StoreOutcome : SaveReturn(r, so) /\ UNCHANGED <<client, call, reads>>
    \/ \E r \in Runs : DelayReturn(r) /\ UNCHANGED <<client, reads>>
    \/ \E r \in Runs : PollReturn(r) /\ UNCHANGED <<client, reads>>

\* timers fire and awaited calls settle
SpecConfig ==
    InitConfig /\ [][NextConfig]_vars /\ \A r \in Runs : WF_vars(LoopStep(r))

\* One large batch, to fill the window of displayed results: sizes from the
\* cap upwards, the backend failing on every fourth text it is sent. The
\* configuration the session starts with is kept throughout the batch.
BigExtra == 2

BigOutcome(text) == IF text % 4 = 0 THEN "err" ELSE "ok"

StartBig ==
    /\ nextRun = 0
    /\ \E n \in MAX_DISPLAY_HISTORY..(MAX_DISPLAY_HISTORY + BigExtra) : HandleStart(n)

AnalyzeReturnBig(r) ==
    /\ loops[r].pc = "analyze"
    /\ FetchReturn(r, BigOutcome(Items(loops[r].n)[loops[r].idx]))

NextBig ==
    \/ StartBig /\ UNCHANGED <<client, reads>>
    \/ HandleStop /\ UNCHANGED <<client, call, reads>>
    \/ TogglePause /\ UNCHANGED <<client, call, reads>>
    \/ HandleNewBatch /\ UNCHANGED <<client, call, reads>>
    \/ \E r \in Runs : AnalyzeReturnBig(r) /\ UNCHANGED <<client, reads>>
    \/ \E r \in Runs : \E so \in StoreOutcome : SaveReturn(r, so) /\ UNCHANGED <<client, call, reads>>
    \/ \E r \in Runs : DelayReturn(r) /\ UNCHANGED <<client, reads>>
    \/ \E r \in Runs : PollReturn(r) /\ UNCHANGED <<client, reads>>

SpecBig == Init /\ [][NextBig]_vars

\* One batch whose items are classified by the retrying client of
\* supabaseClient, the API key being defined: every analyzeText call of the
\* loop is an activation of the client and reaches its first generateContent
\* call. When the client returns or throws, `await analyzeText(text)` resumes
\* in a microtask of the same task: the loop goes on in the step in which
\* the client settles. The record of a settled activation (pc "returned" or
\* "thrown") is kept until the next call.
InitRetry == IdleWith(NoCall)

StartRetry ==
    /\ nextRun = 0
    /\ \E n \in 1..MaxItems : HandleStartCall(n, FALSE)
    /\ client' = CallClient

\* the loop that awaits the client goes on when activation c has settled
AnalyzeSettles(c) ==
    IF c.pc \in {"returned", "thrown"}
    THEN \E r \in Runs :
            AnalyzeReturn(r, IF c.pc = "returned" THEN "ok" ELSE "err")
    ELSE UNCHANGED rvars

\* the awaited generateContent call settles with answer a
ClientAnswer(a, jitter) ==
    /\ client.pc = "calling"
    /\ client' = AfterAnswer(client, a, jitter)
    /\ AnalyzeSettles(AfterAnswer(client, a, jitter))

\* the timer of the backoff wait fires
ClientWaitOver ==
    /\ client.pc = "waiting"
    /\ client' = AfterWait(client)
    /\ AnalyzeSettles(AfterWait(client))

DelayReturnRetry(r) ==
    /\ DelayReturnCall(r, FALSE)
    /\ client' = IF CallsAnalyzeText(r) THEN CallClient ELSE client

PollReturnRetry(r) ==
    /\ PollReturnCall(r, FALSE)
    /\ client' = IF CallsAnalyzeText(r) THEN CallClient ELSE client

NextRetry ==
    \/ StartRetry /\ UNCHANGED <<call, reads>>
    \/ HandleStop /\ UNCHANGED <<client, call, reads>>
    \/ TogglePause /\ UNCHANGED <<client, call, reads>>
    \/ HandleNewBatch /\ UNCHANGED <<client, call, reads>>
    \/ \E a \in ServiceAnswers : \E j \in JitterSamples :
            ClientAnswer(a, j) /\ UNCHANGED <<call, reads>>
    \/ ClientWaitOver /\ UNCHANGED <<call, reads>>
    \/ \E r \in Runs : \E so \in StoreOutcome : SaveReturn(r, so) /\ UNCHANGED <<client, call, reads>>
    \/ \E r \in Runs : DelayReturnRetry(r) /\ UNCHANGED <<call, reads>>
    \/ \E r \in Runs : PollReturnRetry(r) /\ UNCHANGED <<call, reads>>

SpecRetry == InitRetry /\ [][NextRetry]_vars

TypeOK ==
    /\ isProcessing \in BOOLEAN /\ isPaused \in BOOLEAN
    /\ stopRef \in BOOLEAN /\ pauseRef \in BOOLEAN
    /\ nextRun \in 0..MaxRuns
    /\ \A r \in Runs : loops[r].pc \in {"idle", "analyze", "save", "delay", "poll", "done"}

\* ------------------------------------------------------------ properties
Last(q) == q[Len(q)]

CountOf(q, o) == Cardinality({i \in 1..Len(q) : q[i] = o})

\* the step lets the loop of run r leave processQueue
Exits(r) == loops[r].pc # "done" /\ loops'[r].pc = "done"

\* the step is a step of the loop of run r that calls analyzeText
LoopDispatches(r) == Active(r) /\ CallsAnalyzeText(r)

\* The step is one in which the loop of run r counts an item: it is a step
\* of that loop which ends at the 100 ms delay, the only await that follows
\* the counting. The item is the one the loop stands at afterwards; it was
\* in flight before the step, or it is dispatched in the step and its call
\* throws at once.
CountsItem(r) == loops'[r].pc = "delay" /\ loops'[r] # loops[r]

\* the item counted in such a step
CountedItem(r) == Items(loops'[r].n)[loops'[r].idx]

\* The counters and the displayed results on which the updates of the step
\* are made: those handleStart has set when the step starts a batch, those
\* of the state before the step otherwise
ProgressBefore ==
    IF nextRun' # nextRun THEN ProgressStart(loops'[nextRun'].n) ELSE progress

ResultsBefore == IF nextRun' # nextRun THEN <<>> ELSE displayResults

NeverStopped == \A q \in Runs : ~hist[q].stopped

NoControl(r) == NeverStopped /\ ~hist[r].paused

\* C1: a batch of N items run without any pause or stop eventually ends; when
\* its loop exits, current = total = N, every item has been passed to the
\* classifier exactly once, in order, and the run is no longer processing.
C1_CompletesBatch ==
    /\ \A r \in Runs :
          (Active(r) /\ NoControl(r)) ~> (loops[r].pc = "done" \/ ~NoControl(r))
    /\ [][\A r \in Runs :
            (Exits(r) /\ NoControl(r)) =>
               /\ progress'.current = loops[r].n
               /\ progress'.total = loops[r].n
               /\ dispatched'[r] = Items(loops[r].n)
               /\ ~isProcessing'
               /\ completions'[r] = 1]_vars

\* C2: in every reachable state success + failed = current.
C2_CountsSum == progress.success + progress.failed = progress.current

C2_Witness ==
    /\ progress.success >= 1 /\ progress.failed >= 1
    /\ \E r \in Runs : hist[r].stopped /\ hist[r].paused
    /\ nextRun = 2

\* C3: a classifier failure on item i does not end the run: the step in which
\* the failure reaches the loop (the awaited call rejects, or the call throws
\* in the step that makes it) records the placeholder for that item at the
\* head of the displayed results, adds one to current and to failed, leaves
\* success and total alone and leaves the loop at its inter-item delay; after
\* the delay the loop, unless stopped or paused, passes item i+1 to the
\* classifier.  A 3-item batch whose second item fails, run with no other
\* loop under way, ends with total 3, current 3, success 2, failed 1.
C3_FailureIsolated ==
    [][\A r \in Runs :
        /\ (/\ Len(loops'[r].outc) = Len(loops[r].outc) + 1
            /\ Last(loops'[r].outc) = "err") =>
              /\ loops'[r].pc = "delay"
              /\ loops'[r].idx = Len(loops'[r].outc)
              /\ loops'[r].idx =
                    IF loops[r].pc \in {"analyze", "poll"} THEN loops[r].idx
                    ELSE loops[r].idx + 1
              /\ Head(displayResults') =
                    [original_text |-> Items(loops'[r].n)[loops'[r].idx],
                     corrected_text |-> "Error processing this item.",
                     annotations |-> <<>>]
              /\ progress'.current = ProgressBefore.current + 1
              /\ progress'.failed = ProgressBefore.failed + 1
              /\ progress'.success = ProgressBefore.success
              /\ progress'.total = ProgressBefore.total
        /\ (/\ loops[r].pc = "delay" /\ Last(loops[r].outc) = "err"
            /\ loops[r].idx < loops[r].n /\ ~stopRef /\ ~pauseRef
            /\ loops'[r] # loops[r]) =>
              /\ loops'[r].idx = loops[r].idx + 1
              /\ dispatched'[r] = Append(dispatched[r], loops[r].idx + 1)
              /\ loops'[r].pc = IF CallThrows(call) THEN "delay" ELSE "analyze"
        /\ (Exits(r) /\ NeverStopped /\ ~hist[r].shared /\ loops[r].n = 3
                /\ loops[r].outc = <<"ok", "err", "ok">>) =>
              progress' = [total |-> 3, current |-> 3, success |-> 2, failed |-> 1]
      ]_vars

C3_Witness ==
    \E r \in Runs :
        /\ loops[r].pc = "done" /\ NeverStopped /\ ~hist[r].shared
        /\ loops[r].outc = <<"ok", "err", "ok">>
        /\ progress = [total |-> 3, current |-> 3, success |-> 2, failed |-> 1]
        /\ displayResults[2].corrected_text = "Error processing this item."
        /\ displayResults[2].original_text = 2

\* C4: if stop is requested when item k is the last item dispatched by a run
\* and no new batch is started afterwards, the run never makes more than k+1
\* classifier calls and ends with current = k or k+1.
C4_StopBounds ==
    \A r \in Runs :
        hist[r].stopK > 0 =>
            /\ Len(dispatched[r]) <= hist[r].stopK + 1
            /\ (loops[r].pc = "done" =>
                   progress.current \in {hist[r].stopK, hist[r].stopK + 1})

\* C5: a run that is never stopped ends, however pause and resume were
\* interleaved with it, with the items dispatched once each in submission
\* order and with the counts that the classifier outcomes of its items
\* determine: the same as for the run that is never paused.
C5_PauseTransparent ==
    [][\A r \in Runs :
        (Exits(r) /\ NeverStopped) =>
            /\ dispatched'[r] = Items(loops[r].n)
            /\ Len(loops[r].outc) = loops[r].n
            /\ progress' = [total |-> loops[r].n,
                            current |-> loops[r].n,
                            success |-> CountOf(loops[r].outc, "ok"),
                            failed |-> CountOf(loops[r].outc, "err")]
      ]_vars

\* C6: at most one classifier call is in flight at any time, and the items of
\* a run are dispatched in submission order.
C6_SingleFlight ==
    /\ InFlight <= 1
    /\ \A r \in Runs :
          dispatched[r] = SubSeq(Items(loops[r].n), 1, Len(dispatched[r]))

\* C7: once stop has been requested for a run, the loop of that run never
\* calls the classifier again, whatever the operator does afterwards.
C7_StopTerminal ==
    [][\A r \in Runs : hist[r].stopped => dispatched'[r] = dispatched[r]]_vars

\* C8: if stop is requested while the loop waits in the pause poll, the steps
\* the loop takes from then on call the classifier no more and leave current
\* as it was.
C8_StopInPauseWait ==
    [][\A r \in Runs :
        (hist[r].stopPoll /\ loops'[r] # loops[r]) =>
            /\ dispatched'[r] = dispatched[r]
            /\ progress'.current = progress.current]_vars

\* C9: while the pause flag is set and stop has not been requested no loop
\* calls the classifier; an item that a loop counts while the pause flag is
\* set (it was in flight, its call or its save settles) is counted as at any
\* other time: current advances by one and the result of the item is put at
\* the head of the displayed results.
C9_PauseHoldsDispatch ==
    [][\A r \in Runs :
        /\ (pauseRef /\ ~stopRef) => ~LoopDispatches(r)
        /\ (pauseRef /\ ~stopRef /\ Active(r) /\ CountsItem(r)) =>
              loops[r].pc \in {"analyze", "save"}
        /\ (pauseRef /\ CountsItem(r)) =>
              /\ progress'.current = ProgressBefore.current + 1
              /\ Len(displayResults') = Min(Len(ResultsBefore) + 1, 100)
              /\ Head(displayResults').original_text = CountedItem(r)
              /\ Head(displayResults').corrected_text =
                    IF Last(loops'[r].outc) = "ok" THEN "corrected"
                    ELSE "Error processing this item."
      ]_vars

C9_Witness ==
    \E r \in Runs :
        /\ pauseRef /\ isPaused /\ ~stopRef /\ isProcessing
        /\ loops[r].pc = "poll" /\ loops[r].idx = 2
        /\ Len(dispatched[r]) = 1
        /\ progress.current = 1 /\ Len(displayResults) = 1

\* C10: the displayed results never number more than 100; a counted item is
\* put at the head and the older results follow in their order; after a
\* batch of N >= 100 items that was not stopped the list holds the results
\* of the last 100 items, most recent first.
C10_WindowBounded ==
    /\ [](Len(displayResults) <= 100)
    /\ [][\A r \in Runs :
            /\ CountsItem(r) =>
                 /\ Head(displayResults').original_text = CountedItem(r)
                 /\ Tail(displayResults') =
                       SubSeq(ResultsBefore, 1, Min(Len(ResultsBefore), 99))
            /\ (Exits(r) /\ NeverStopped /\ loops[r].n >= 100) =>
                 /\ Len(displayResults') = 100
                 /\ \A j \in 1..100 :
                       displayResults'[j].original_text = loops[r].n - j + 1
      ]_vars

C10_Witness ==
    \E r \in Runs :
        /\ loops[r].pc = "done" /\ NeverStopped
        /\ loops[r].n = 101 /\ progress.current = 101
        /\ Len(displayResults) = 100
        /\ displayResults[1].original_text = 101
        /\ displayResults[100].original_text = 2

\* C11: a Result Store failure does not touch the accounting: saveRecord
\* answers null for every store error, and the step in which a save of run r
\* has failed counts the item as a success (success + 1, failed unchanged),
\* puts its result at the head of the displayed results and leaves the loop
\* in its inter-item delay; after that delay the loop, unless stopped or
\* paused, passes the next item to the classifier.
C11_StoreFailureSwallowed ==
    /\ \A so \in StoreOutcome : SaveRecord(so) \in {"data", "null"}
    /\ \A so \in StoreOutcome \ {"inserted"} : SaveRecord(so) = "null"
    /\ [][\A r \in Runs :
          /\ (loops[r].pc = "save" /\ loops'[r] # loops[r]) =>
                /\ hist'[r].lastSave \in {"data", "null"}
                /\ loops'[r].pc = "delay" /\ loops'[r].idx = loops[r].idx
                /\ progress'.success = progress.success + 1
                /\ progress'.failed = progress.failed
                /\ progress'.current = progress.current + 1
                /\ Head(displayResults') =
                      [original_text |-> Items(loops[r].n)[loops[r].idx],
                       corrected_text |-> "corrected",
                       annotations |->
                          ServiceAnnotations(Items(loops[r].n)[loops[r].idx])]
          /\ (/\ loops[r].pc = "delay" /\ hist[r].lastSave = "null"
              /\ Last(loops[r].outc) = "ok"
              /\ loops[r].idx < loops[r].n /\ ~stopRef /\ ~pauseRef
              /\ loops'[r] # loops[r]) =>
                /\ loops'[r].idx = loops[r].idx + 1
                /\ dispatched'[r] = Append(dispatched[r], loops[r].idx + 1)
                /\ loops'[r].pc = IF CallThrows(call) THEN "delay" ELSE "analyze"
      ]_vars

C11_Witness ==
    \E r \in Runs :
        /\ hist[r].lastSave = "null" /\ ~hist[r].stopped
        /\ loops[r].pc = "analyze" /\ loops[r].idx = 2
        /\ progress.success = 1 /\ progress.failed = 0
        /\ Len(displayResults) = 1

\* the texts of run r whose classifier call has returned a result, in order
RECURSIVE OkTexts(_, _)
OkTexts(r, k) ==
    IF k = 0 THEN <<>>
    ELSE IF loops[r].outc[k] = "ok"
         THEN Append(OkTexts(r, k - 1), Items(loops[r].n)[k])
         ELSE OkTexts(r, k - 1)

\* what run r has passed to saveRecord is exactly the successfully classified
\* items, once each and in submission order (so never a placeholder)
SubmittedAreOkTexts ==
    \A r \in Runs : submitted[r] = OkTexts(r, Len(loops[r].outc))

\* an item is passed to saveRecord before it is counted in success
SubmittedBeforeCounted ==
    \A r \in Runs :
        (loops[r].pc = "save" /\ progress'.success = progress.success + 1
            /\ loops'[r] # loops[r]) =>
                Last(submitted[r]) = Items(loops[r].n)[loops[r].idx]

\* C12: the results a run submits to the Result Store are exactly those of
\* its successfully classified items, once each, in submission order, each
\* before the item is counted in success, never a placeholder; hence in every
\* state the run on display has submitted at least `success` results.
C12_StoreSubmissions ==
    /\ [](SubmittedAreOkTexts)
    /\ [][SubmittedBeforeCounted]_vars
    /\ [](nextRun > 0 => Len(submitted[nextRun]) >= progress.success)

\* the failed answers that are neither a 429 nor a 503 of the service
FatalAnswers == ServiceAnswers \ {"ok", "429", "503"}

\* C13: a classify call whose first attempt fails with an error that is not
\* 429/503 has made one call to the service, awaits no backoff delay and
\* throws that error; the loop has recorded a failure for the item.
C13_FatalNoRetry ==
    (client.lastAnswer \in FatalAnswers /\ client.calls = 1) =>
        /\ client.retries = 0 /\ client.waits = 0
        /\ client.pc = "thrown"
        /\ client.err = client.lastAnswer
        /\ \E r \in Runs : loops[r].outc # <<>> /\ Last(loops[r].outc) = "err"

\* C14: the retrying client never makes more than 5 calls to the service for
\* one classify call; when all of them fail with 429/503 it has made exactly
\* 5 and throws, and the loop counts one failure for the item; when attempt j
\* succeeds the call returns after exactly j service calls.
C14_RetryCap ==
    /\ [](/\ client.calls <= 5
          /\ client.err = "max" =>
                /\ client.calls = 5
                /\ IsRetryable(client.lastAnswer)
          /\ (client.pc = "thrown" /\ client.lastAnswer \in {"429", "503"}) =>
                /\ client.err = "max"
                /\ client.calls = 5
          /\ client.pc = "returned" =>
                /\ client.lastAnswer = "ok"
                /\ client.calls = client.retries + 1)
    /\ [][(client.pc # "thrown" /\ client'.pc = "thrown") =>
            /\ progress'.failed = progress.failed + 1
            /\ progress'.current = progress.current + 1
            /\ progress'.success = progress.success
            /\ \E r \in Runs :
                  /\ loops[r].pc = "analyze" /\ loops'[r].pc = "delay"
                  /\ Last(loops'[r].outc) = "err"]_vars

C14_Witness ==
    /\ client.pc = "thrown" /\ client.err = "max" /\ client.calls = 5
    /\ \E r \in Runs : loops[r].outc = <<"ok", "err">>
    /\ progress.failed = 1 /\ progress.success = 1

\* the part of a wait time that does not come from the jitter
WaitBase(w) == w - (w % 1000)

\* C15: the wait before retry n (n = 1..5, the retry counter after its
\* increment) lies in [2000 * 2^n, 2000 * 2^n + 1000), and its deterministic
\* part is twice that of the wait before.
C15_BackoffWait ==
    /\ [](client.pc = "waiting" =>
            /\ client.retries \in 1..5
            /\ client.lastWait >=
                  CASE client.retries = 1 -> 4000 [] client.retries = 2 -> 8000
                    [] client.retries = 3 -> 16000 [] client.retries = 4 -> 32000
                    [] client.retries = 5 -> 64000
            /\ client.lastWait <
                  1000 + CASE client.retries = 1 -> 4000 [] client.retries = 2 -> 8000
                           [] client.retries = 3 -> 16000 [] client.retries = 4 -> 32000
                           [] client.retries = 5 -> 64000)
    /\ [][(client.pc = "calling" /\ client'.pc = "waiting" /\ client.retries >= 1) =>
             WaitBase(client'.lastWait) = 2 * WaitBase(client.lastWait)]_vars

C15_Witness ==
    /\ client.pc = "waiting" /\ client.retries = 3 /\ client.lastWait = 16500
    /\ client.calls = 3

\* C16 (as stated): whatever state earlier batches left, the step that
\* starts a batch of n items leaves total = n, current = success = failed =
\* 0, an empty result window, no batch annotations, no latest result, the
\* stop and pause flags cleared, and the first item passed to the classifier.
C16_StartResets ==
    [][nextRun' # nextRun =>
          LET r == nextRun' IN
          /\ r = nextRun + 1
          /\ progress' = [current |-> 0, total |-> Len(Items(loops'[r].n)),
                          success |-> 0, failed |-> 0]
          /\ displayResults' = <<>>
          /\ batchAnnotations' = <<>>
          /\ latestResult' = NullResult
          /\ ~stopRef' /\ ~pauseRef' /\ ~isPaused'
          /\ isProcessing'
          /\ loops'[r].idx = 1
          /\ dispatched'[r] = <<Items(loops'[r].n)[1]>>]_vars

\* C16 (amended): whatever state earlier batches left, the step that starts
\* a batch of n items leaves total = n, no batch annotations, no latest
\* result, the stop and pause flags cleared, isProcessing set and the first
\* item, and no other, passed to the classifier. Nothing of an earlier batch
\* is left in the counters or in the displayed results: when a base URL is
\* configured the call is awaited, the counters are 0 and the window is
\* empty; when none is, the call has thrown in that step, the item is
\* counted as failed (current = failed = 1, success = 0) and the window
\* holds its placeholder and nothing else.
C16_StartDispatches ==
    [][nextRun' # nextRun =>
          LET r == nextRun'
              n == loops'[r].n
          IN
          /\ r = nextRun + 1
          /\ n >= 1
          /\ batchAnnotations' = <<>>
          /\ latestResult' = NullResult
          /\ ~stopRef' /\ ~pauseRef' /\ ~isPaused'
          /\ isProcessing'
          /\ loops'[r].idx = 1
          /\ dispatched'[r] = <<Items(n)[1]>>
          /\ IF getApiBaseUrl(call) # <<>>
             THEN /\ loops'[r].pc = "analyze" /\ loops'[r].outc = <<>>
                  /\ progress' = [current |-> 0, total |-> n,
                                  success |-> 0, failed |-> 0]
                  /\ displayResults' = <<>>
             ELSE /\ loops'[r].pc = "delay" /\ loops'[r].outc = <<"err">>
                  /\ progress' = [current |-> 1, total |-> n,
                                  success |-> 0, failed |-> 1]
                  /\ displayResults' =
                        <<[original_text |-> Items(n)[1],
                           corrected_text |-> "Error processing this item.",
                           annotations |-> <<>>]>>]_vars

\* A second batch has just been started after the first one was paused and
\* then stopped with one item counted, and the loop of the first one has not
\* left yet; no base URL is configured
C16_Witness ==
    /\ nextRun = 2
    /\ hist[1].paused /\ hist[1].stopped /\ Active(1)
    /\ Len(loops[1].outc) = 1
    /\ getApiBaseUrl(call) = <<>>
    /\ loops[2].pc = "delay" /\ loops[2].idx = 1 /\ loops[2].outc = <<"err">>
    /\ loops[2].n = 2
    /\ progress = [current |-> 1, total |-> 2, success |-> 0, failed |-> 1]
    /\ Len(displayResults) = 1
    /\ ~isPaused /\ ~pauseRef /\ ~stopRef /\ isProcessing

\* C17: a step of handleNewBatch or of handleStart is taken only when no
\* loop of an earlier batch is still inside processQueue.
C17_ResetAfterExit ==
    [][(HandleNewBatch \/ nextRun' # nextRun) =>
          \A q \in Runs : ~Active(q)]_vars

\* C18: onComplete has been called once for a batch whose loop has left
\* processQueue and not at all for any other; the call is made in the step
\* in which the loop leaves, whether the queue is exhausted or stop was
\* requested, and by then every item the loop passed to the classifier has
\* been counted.
C18_CompletionOnce ==
    /\ [](\A r \in Runs :
            completions[r] = IF loops[r].pc = "done" THEN 1 ELSE 0)
    /\ [][\A r \in Runs :
            completions'[r] # completions[r] =>
                /\ Exits(r)
                /\ loops[r].pc \in {"delay", "poll"}
                /\ Len(loops[r].outc) = Len(dispatched[r])
                /\ dispatched'[r] = dispatched[r]
                /\ progress' = progress]_vars

\* a batch of two items stopped after its first item, and a later batch that
\* ran to its end, have both notified the parent
C18_Witness ==
    /\ hist[1].stopped /\ loops[1].n = 2 /\ Len(loops[1].outc) = 1
    /\ loops[1].pc = "done" /\ completions[1] = 1
    /\ ~hist[2].stopped /\ loops[2].pc = "done" /\ completions[2] = 1

\* C19 (as stated): the operation behind pause() and resume() is idempotent,
\* invoking it once more on the state it has produced changes nothing: a
\* batch it has paused stays paused, a batch it has resumed stays running.
C19_PauseIdempotent ==
    [][TogglePause => togglePause(isPaused') = isPaused']_vars

\* C19 (amended): the component has one pause control, rendered exactly
\* while it is processing and titled Pause or Resume after the flag. Every
\* invocation flips the flag, so that it pauses a running batch and resumes a
\* paused one, the flag the loop reads follows it, and it changes neither the
\* progress, the loops, the results nor the stop flag. While the component
\* is not processing there is no control to invoke and the flag changes
\* only by a start, which clears it.
C19_PauseToggle ==
    /\ [](pauseRef = isPaused)
    /\ []((ENABLED TogglePause) <=> isProcessing)
    /\ [](PauseButtonTitle = IF isPaused THEN "Resume" ELSE "Pause")
    /\ [][TogglePause =>
             /\ isPaused' = ~isPaused /\ pauseRef' = ~pauseRef
             /\ PauseButtonTitle' # PauseButtonTitle]_vars
    /\ [][(isPaused' # isPaused /\ nextRun' = nextRun) =>
             /\ isProcessing /\ isProcessing'
             /\ TogglePause
             /\ UNCHANGED <<progress, loops, stopRef, displayResults,
                            batchAnnotations, latestResult, dispatched>>]_vars
    /\ [][(nextRun' # nextRun) => (~isPaused' /\ ~pauseRef')]_vars

\* a batch that was paused is running again without having been restarted
C19_Witness ==
    /\ nextRun = 1 /\ hist[1].paused /\ loops[1].pc = "analyze"
    /\ isProcessing /\ ~isPaused /\ ~pauseRef /\ ~stopRef

\* the annotations of the items of run r whose classifier call has returned
\* a result, in order
RECURSIVE OkAnnotations(_, _)
OkAnnotations(r, k) ==
    IF k = 0 THEN <<>>
    ELSE IF loops[r].outc[k] = "ok"
         THEN OkAnnotations(r, k - 1) \o ServiceAnnotations(Items(loops[r].n)[k])
         ELSE OkAnnotations(r, k - 1)

\* the count shown under a code, 0 when the code has no entry
CountShown(counts, key) == IF key \in DOMAIN counts THEN counts[key] ELSE 0

\* the statistics panel shows, for the annotations anns, one entry per code
\* that occurs, with the number of annotations carrying it
StatsMatch(shown, anns) ==
    /\ shown.total = Len(anns)
    /\ DOMAIN shown.microCounts = {anns[i].error_code : i \in 1..Len(anns)}
    /\ DOMAIN shown.macroCounts = {anns[i].macro_code : i \in 1..Len(anns)}
    /\ \A c \in {"E1", "E2"} :
          CountShown(shown.microCounts, c) =
              Cardinality({i \in 1..Len(anns) : anns[i].error_code = c})
    /\ \A m \in {"M1"} :
          CountShown(shown.macroCounts, m) =
              Cardinality({i \in 1..Len(anns) : anns[i].macro_code = m})

\* C20: when the loop of the batch on display leaves, and the display has
\* not been reset since that batch was started, the batch annotations are
\* exactly the annotations of all its successfully classified items, in
\* order (whether or not those items are still in the window of displayed
\* results), failed items contribute none, and the statistics panel shows
\* for each error code and each macro code the number of those annotations
\* that carry it.
C20_AnnotationAggregate ==
    [][\A r \in Runs :
          (Exits(r) /\ r = nextRun /\ progress.total # 0) =>
              LET expected == OkAnnotations(r, Len(loops[r].outc))
              IN /\ batchAnnotations' = expected
                 /\ StatsMatch(Stats(batchAnnotations'), expected)]_vars

\* C21: the step in which a loop counts an item, as a success or as a
\* failure, advances current by one and leaves latestResult equal to the
\* result of that item, which is the head of the displayed results.
C21_LatestResultEveryItem ==
    [][\A r \in Runs :
          CountsItem(r) =>
              /\ progress'.current = ProgressBefore.current + 1
              /\ displayResults' # <<>>
              /\ Head(displayResults').original_text = CountedItem(r)
              /\ latestResult' = Head(displayResults')]_vars

\* ------------------------------------------------------------- parseCSV
\* A text is a sequence of characters. The characters that matter to
\* parseCSV: a letter, a blank, the double quote, line feed, carriage return.
Alphabet == {"a", SP, QUOTE, LF, CR}

\* length of the texts that are tried
MaxLen == 5

Texts == UNION {[1..n -> Alphabet] : n \in 0..MaxLen}

\* text.replace(/\r\n/g, '\n')
RECURSIVE ReplaceCRLF(_)
ReplaceCRLF(t) ==
    IF t = <<>> THEN <<>>
    ELSE IF Len(t) >= 2 /\ t[1] = CR /\ t[2] = LF
         THEN <<LF>> \o ReplaceCRLF(SubSeq(t, 3, Len(t)))
         ELSE <<t[1]>> \o ReplaceCRLF(Tail(t))

\* .replace(/\r/g, '\n')
ReplaceCR(t) == [i \in 1..Len(t) |-> IF t[i] = CR THEN LF ELSE t[i]]

\* `const normalized = text.replace(/\r\n/g, '\n').replace(/\r/g, '\n');`
Normalize(text) == ReplaceCR(ReplaceCRLF(text))

\* `if (current.trim()) results.push(current.trim());`
PushCurrent(results, current) ==
    IF Trim(current) # <<>> THEN Append(results, Trim(current)) ELSE results

\* variant: a doubled quote inside a quoted field ends the field and opens
\* the next one
DoubledQuote_Closes(normalized, i) == FALSE

\* `i + 1 < normalized.length && normalized[i + 1] === '"'`, for the 1-based
\* position i
DoubledQuote(normalized, i) ==
    i + 1 <= Len(normalized) /\ normalized[i + 1] = QUOTE

\* The for loop of parseCSV from position i on (1-based), with the values of
\* current, inQuote and results at that point, and the statements after it.
RECURSIVE ParseLoop(_, _, _, _, _)
ParseLoop(normalized, i, current, inQuote, results) ==
    IF i > Len(normalized) THEN PushCurrent(results, current)
    ELSE LET char == normalized[i] IN
         IF inQuote
         THEN IF char = QUOTE
              THEN IF DoubledQuote(normalized, i)
                   THEN ParseLoop(normalized, i + 2, Append(current, QUOTE),
                                  TRUE, results)
                   ELSE ParseLoop(normalized, i + 1, current, FALSE, results)
              ELSE ParseLoop(normalized, i + 1, Append(current, char),
                             TRUE, results)
         ELSE IF char = QUOTE
              THEN ParseLoop(normalized, i + 1, current, TRUE, results)
              ELSE IF char = LF
                   THEN ParseLoop(normalized, i + 1, <<>>, FALSE,
                                  PushCurrent(results, current))
                   ELSE ParseLoop(normalized, i + 1, Append(current, char),
                                  FALSE, results)

parseCSV(text) == ParseLoop(Normalize(text), 1, <<>>, FALSE, <<>>)

\* One call of parseCSV on a text of at most MaxLen characters
InitCSV ==
    \E t \in Texts :
        IdleWith([fn |-> "parseCSV", pc |-> "called", arg |-> t, ret |-> <<>>])

ParseCSVReturns ==
    /\ call.fn = "parseCSV" /\ call.pc = "called"
    /\ call' = [call EXCEPT !.pc = "returned", !.ret = parseCSV(call.arg)]
    /\ UNCHANGED <<rvars, client, reads>>

NextCSV == ParseCSVReturns

SpecCSV == InitCSV /\ [][NextCSV]_vars

\* What the claims say of parseCSV, stated without its loop.
\* The text with every CR that stands before an LF left out and every other
\* CR turned into LF
RECURSIVE LineFeedsFrom(_, _)
LineFeedsFrom(t, i) ==
    IF i > Len(t) THEN <<>>
    ELSE IF t[i] = CR /\ i < Len(t) /\ t[i + 1] = LF
         THEN LineFeedsFrom(t, i + 1)
         ELSE <<IF t[i] = CR THEN LF ELSE t[i]>> \o LineFeedsFrom(t, i + 1)

\* position i of n lies inside a quoted field: an odd number of quotes
\* stands before it
InQuoted(n, i) == Cardinality({j \in 1..(i - 1) : n[j] = QUOTE}) % 2 = 1

\* the line feeds of n that end a record
RecordBreaks(n) == {i \in 1..Len(n) : n[i] = LF /\ ~InQuoted(n, i)}

\* the position after the last character of the record that starts at lo
RecordEnd(n, lo) ==
    IF \E b \in RecordBreaks(n) : b >= lo
    THEN CHOOSE b \in RecordBreaks(n) :
            b >= lo /\ \A c \in RecordBreaks(n) : c >= lo => b <= c
    ELSE Len(n) + 1

\* the characters the positions lo..hi of n stand for: a quote that
\* delimits a field stands for nothing, a quote inside a quoted field that
\* is followed by a quote stands for one quote, any other character for
\* itself
RECURSIVE Unquoted(_, _, _)
Unquoted(n, lo, hi) ==
    IF lo > hi THEN <<>>
    ELSE (IF n[lo] # QUOTE THEN <<n[lo]>>
          ELSE IF InQuoted(n, lo) /\ lo < Len(n) /\ n[lo + 1] = QUOTE
               THEN <<QUOTE>>
               ELSE <<>>) \o Unquoted(n, lo + 1, hi)

\* the records of n from position lo on whose unquoted content is not blank,
\* trimmed, in order
RECURSIVE RecordItems(_, _)
RecordItems(n, lo) ==
    LET end == RecordEnd(n, lo)
        item == Trim(Unquoted(n, lo, end - 1))
        rest == IF end > Len(n) THEN <<>> ELSE RecordItems(n, end + 1)
    IN IF item # <<>> THEN <<item>> \o rest ELSE rest

\* the number of records of n from position lo on whose text, quotes
\* included, is not blank
RECURSIVE NonBlankRecords(_, _)
NonBlankRecords(n, lo) ==
    LET end == RecordEnd(n, lo)
        rest == IF end > Len(n) THEN 0 ELSE NonBlankRecords(n, end + 1)
    IN IF Trim(SubSeq(n, lo, end - 1)) # <<>> THEN 1 + rest ELSE rest

\* C22 (as stated): parseCSV yields exactly one item for every line that is
\* not empty after trimming, and none for a blank line, a line ending at a
\* line feed outside a quoted field.
C22_OneItemPerLine ==
    call.pc = "returned" =>
        Len(call.ret) = NonBlankRecords(LineFeedsFrom(call.arg, 1), 1)

\* C22 (amended): with CRLF and lone CR read as LF, parseCSV yields, in file
\* order, one item for every record whose content without its field quotes
\* is not empty after trimming, namely that content trimmed, and none for
\* any other record; a record ends at a line feed outside a quoted field,
\* and a doubled quote inside a quoted field stands for one quote.
C22_ParseCSV ==
    call.pc = "returned" =>
        /\ call.ret = RecordItems(LineFeedsFrom(call.arg, 1), 1)
        /\ \A k \in 1..Len(call.ret) :
              call.ret[k] # <<>> /\ Trim(call.ret[k]) = call.ret[k]

\* a quoted field that starts with a doubled quote
C22_Witness ==
    /\ call.pc = "returned"
    /\ call.arg = <<QUOTE, QUOTE, QUOTE, "a", QUOTE>>
    /\ call.ret = << <<QUOTE, "a">> >>

\* C23: in every state the progress counters satisfy 0 <= current <= total.
C23_CurrentWithinTotal ==
    0 <= progress.current /\ progress.current <= progress.total

\* C24: while the component reports that it is not processing, a step of a
\* dispatch loop changes neither the progress counters, the displayed
\* results, latestResult nor the batch annotations.
C24_QuietWhenNotProcessing ==
    [][(~isProcessing /\ nextRun' = nextRun /\ loops' # loops) =>
          UNCHANGED <<progress, displayResults, latestResult,
                      batchAnnotations>>]_vars

\* C25: in every state the number of displayed results is min(current, 100).
C25_WindowTracksCurrent ==
    Len(displayResults) =
        IF progress.current < 100 THEN progress.current ELSE 100

\* more items have been counted than the window holds
C25_Witness ==
    /\ progress.current = 101 /\ Len(displayResults) = 100
    /\ progress.failed > 0 /\ progress.success > 0

\* C26: in the retrying client every attempt that fails with 429/503 is
\* followed by a wait, the fifth included: outside a service call there are
\* as many waits as calls while the latest answer was retryable, and a call
\* whose attempts all failed that way throws "Max retries exceeded" after 5
\* calls and 5 waits, never the service's own error.
C26_WaitAfterEveryRetryable ==
    /\ client.pc = "calling" => client.calls = client.waits + 1
    /\ (client.lastAnswer \in {"429", "503"} /\ client.pc # "calling") =>
          /\ client.waits = client.calls
          /\ client.err \in {"none", "max"}
    /\ (client.pc = "thrown" /\ client.lastAnswer \in {"429", "503"}) =>
          /\ client.err = "max"
          /\ client.calls = 5 /\ client.waits = 5
          /\ client.lastWait >= 64000

C26_Witness ==
    /\ client.pc = "thrown" /\ client.err = "max"
    /\ client.lastAnswer = "503"
    /\ client.calls = 5 /\ client.waits = 5 /\ client.lastWait = 64999

\* ------------------------------------------- analyzeText: the result object
\* texts 1..MaxText are tried as the submitted text and as the original_text
\* of a response
MaxText == 4

\* The objects JSON.parse / response.json() can yield: what the response
\* schema asks for, with or without an original_text of the service's own
ResponseObjects ==
    {[corrected_text |-> c, annotations |-> a] :
        c \in {"corrected", ""}, a \in {<<>>, <<Ann("E1", "M1")>>}}
    \cup {[original_text |-> o, corrected_text |-> c, annotations |-> a] :
            o \in 1..MaxText, c \in {"corrected", ""},
            a \in {<<>>, <<Ann("E1", "M1")>>}}

\* `return { original_text: text, ...result }`: the properties of result are
\* copied after original_text has been set and replace it when present
SpreadResult(text, result) == result @@ [original_text |-> text]

InitSpread ==
    \E t \in 1..MaxText : \E res \in ResponseObjects :
        IdleWith([fn |-> "analyzeText", pc |-> "called",
                  arg |-> [text |-> t, result |-> res], ret |-> <<>>])

AnalyzeTextReturns ==
    /\ call.fn = "analyzeText" /\ call.pc = "called"
    /\ call' = [call EXCEPT !.pc = "returned",
                            !.ret = SpreadResult(call.arg.text, call.arg.result)]
    /\ UNCHANGED <<rvars, client, reads>>

NextSpread == AnalyzeTextReturns

SpecSpread == InitSpread /\ [][NextSpread]_vars

\* C27: the original_text of the AnalysisResult a successful analyzeText
\* call returns is the text that was submitted, whatever the response
\* object of the service contains.
C27_OriginalTextKept ==
    (call.fn = "analyzeText" /\ call.pc = "returned") =>
        call.ret.original_text = call.arg.text

\* the last item of run r has been dispatched and not yet left behind
LastItemUnderWay(r) ==
    /\ loops[r].pc \in {"analyze", "save", "delay"}
    /\ loops[r].idx = loops[r].n

\* C28: the pause flag is looked at only before an item is dispatched. A
\* run whose last item is under way while pause is set still ends; the step
\* after the last item's delay leaves the loop whatever the pause flag is,
\* clears isProcessing, calls onComplete and leaves the pause flag as it is;
\* and a start that finds the pause flag set clears it and passes its first
\* item to the classifier at once.
C28_PauseAfterLastItem ==
    /\ \A r \in Runs :
          (LastItemUnderWay(r) /\ isPaused) ~> (loops[r].pc = "done")
    /\ [][\A r \in Runs :
            (LastItemUnderWay(r) /\ loops[r].pc = "delay"
                /\ loops'[r] # loops[r]) =>
                   /\ Exits(r)
                   /\ ~isProcessing'
                   /\ completions'[r] = completions[r] + 1
                   /\ isPaused' = isPaused /\ pauseRef' = pauseRef]_vars
    /\ [][(nextRun' # nextRun /\ isPaused) =>
             /\ ~isPaused' /\ ~pauseRef'
             /\ dispatched'[nextRun'] = <<Items(loops'[nextRun'].n)[1]>>
             /\ loops'[nextRun'].pc =
                   IF CallThrows(call) THEN "delay" ELSE "analyze"]_vars

\* a batch has ended by exhaustion with the pause flag still set
C28_Witness ==
    /\ nextRun = 1 /\ loops[1].pc = "done" /\ ~hist[1].stopped
    /\ Len(loops[1].outc) = loops[1].n
    /\ isPaused /\ pauseRef /\ ~isProcessing /\ completions[1] = 1

\* an analyzeText call begins in this step
CallBegins == call'.calls = call.calls + 1

\* C29: an analyzeText call made while there is no base URL, stored or of
\* the build, sends no request: in the step in which it is made the loop has
\* counted a failure, put the placeholder of the item at the head of the
\* displayed results, passed nothing to the store and begun its delay. As
\* long as every call of the batch was made in that condition no request has
\* been sent, no item has succeeded, the store has received nothing and
\* every displayed result is a placeholder; such a batch, when not paused,
\* comes to its end, and when its loop leaves without a stop having been
\* requested, current = failed = N, success = 0 and N placeholders are on
\* display.
C29_MissingConfig ==
    /\ [][(CallBegins /\ getApiBaseUrl(call) = <<>>) =>
            /\ call'.ret = call.ret /\ call'.pc = "idle"
            /\ call'.missing = call.missing + 1
            /\ submitted' = submitted
            /\ progress'.failed =
                  (IF nextRun' # nextRun THEN 0 ELSE progress.failed) + 1
            /\ progress'.current =
                  (IF nextRun' # nextRun THEN 0 ELSE progress.current) + 1
            /\ progress'.success =
                  (IF nextRun' # nextRun THEN 0 ELSE progress.success)
            /\ \E r \in Runs :
                  /\ Len(dispatched'[r]) = Len(dispatched[r]) + 1
                  /\ loops'[r].pc = "delay"
                  /\ Last(loops'[r].outc) = "err"
                  /\ Head(displayResults') = ErrorResult(Last(dispatched'[r]))
          ]_vars
    /\ [](call.missing = call.calls =>
            /\ call.ret = 0 /\ call.pc # "fetching"
            /\ progress.success = 0
            /\ \A r \in Runs : submitted[r] = <<>>
            /\ \A k \in 1..Len(displayResults) :
                  displayResults[k].corrected_text = ERROR_TEXT)
    /\ \A r \in Runs :
          (getApiBaseUrl(call) = <<>> /\ Active(r) /\ ~isPaused) ~>
              (loops[r].pc = "done" \/ isPaused \/ getApiBaseUrl(call) # <<>>)
    /\ [][\A r \in Runs :
            (call.missing = call.calls /\ Exits(r) /\ NeverStopped
                /\ ~hist[r].shared) =>
                /\ progress' = [current |-> loops[r].n, total |-> loops[r].n,
                                success |-> 0, failed |-> loops[r].n]
                /\ Len(displayResults') = loops[r].n
                /\ Len(dispatched[r]) = loops[r].n]_vars

\* a batch of three has ended, all three calls having found no base URL,
\* although a base URL was saved after the last of them had been made
C29_Witness ==
    /\ call.missing = 3 /\ call.calls = 3 /\ call.ret = 0
    /\ getApiBaseUrl(call) # <<>>
    /\ loops[1].pc = "done" /\ loops[1].n = 3 /\ NeverStopped
    /\ progress = [current |-> 3, total |-> 3, success |-> 0, failed |-> 3]
    /\ Len(displayResults) = 3 /\ submitted[1] = <<>>

\* ------------------------------------------- AnnotationView.renderText
\* original texts of up to MaxChars characters with up to MaxAnns annotations
MaxChars == 4
MaxAnns == 2

\* the text of n characters: character i is written i, so that two texts
\* are equal only if they hold the same characters in the same order
TextOf(n) == [i \in 1..n |-> i]

\* an annotation, reduced to its span (zero-based, end exclusive)
SpansIn(n) ==
    {[start_index |-> a, end_index |-> b] : a \in 0..n, b \in 0..n}

\* the spans lie inside the text, are not empty and do not overlap
ValidSpans(text, anns) ==
    /\ \A k \in 1..Len(anns) :
          /\ 0 <= anns[k].start_index
          /\ anns[k].start_index < anns[k].end_index
          /\ anns[k].end_index <= Len(text)
    /\ \A j, k \in 1..Len(anns) :
          j # k => \/ anns[j].end_index <= anns[k].start_index
                   \/ anns[k].end_index <= anns[j].start_index

\* String.prototype.slice(a, b) for 0 <= a
Slice(t, a, b) == SubSeq(t, a + 1, Min(b, Len(t)))

\* x put into the sorted list after every element that does not come after it
RECURSIVE InsertByStart(_, _)
InsertByStart(sorted, x) ==
    IF sorted = <<>> THEN <<x>>
    ELSE IF Head(sorted).start_index <= x.start_index
         THEN <<Head(sorted)>> \o InsertByStart(Tail(sorted), x)
         ELSE <<x>> \o sorted

\* variant: the annotations are rendered in the order given
SortByStart_None(anns) == anns

\* `[...annotations].sort((a, b) => a.start_index - b.start_index)`, a
\* stable sort
RECURSIVE SortByStart(_)
SortByStart(anns) ==
    IF anns = <<>> THEN <<>>
    ELSE InsertByStart(SortByStart(SubSeq(anns, 1, Len(anns) - 1)),
                       anns[Len(anns)])

\* The forEach of renderText from the k-th sorted annotation on, and the
\* statements after it. An element is a span of plain text (key text-idx,
\* text-end written with idx -1) or a highlighted span (key ann-idx).
RECURSIVE RenderFrom(_, _, _, _, _)
RenderFrom(originalText, sorted, k, lastIndex, elements) ==
    IF k > Len(sorted)
    THEN IF lastIndex < Len(originalText)
         THEN Append(elements,
                     [kind |-> "text", idx |-> -1,
                      text |-> Slice(originalText, lastIndex, Len(originalText))])
         ELSE elements
    ELSE LET ann == sorted[k]
             before ==
                IF ann.start_index > lastIndex
                THEN Append(elements,
                            [kind |-> "text", idx |-> k - 1,
                             text |-> Slice(originalText, lastIndex, ann.start_index)])
                ELSE elements
             marked ==
                Append(before,
                       [kind |-> "ann", idx |-> k - 1,
                        text |-> Slice(originalText, ann.start_index, ann.end_index)])
         IN RenderFrom(originalText, sorted, k + 1, ann.end_index, marked)

renderText(originalText, annotations) ==
    RenderFrom(originalText, SortByStart(annotations), 1, 0, <<>>)

AnnLists(n) == UNION {[1..m -> SpansIn(n)] : m \in 0..MaxAnns}

InitRender ==
    \E n \in 0..MaxChars : \E anns \in AnnLists(n) :
        IdleWith([fn |-> "renderText", pc |-> "called",
                  arg |-> [originalText |-> TextOf(n), annotations |-> anns],
                  ret |-> <<>>])

RenderTextReturns ==
    /\ call.fn = "renderText" /\ call.pc = "called"
    /\ call' = [call EXCEPT !.pc = "returned",
                            !.ret = renderText(call.arg.originalText,
                                               call.arg.annotations)]
    /\ UNCHANGED <<rvars, client, reads>>

NextRender == RenderTextReturns

SpecRender == InitRender /\ [][NextRender]_vars

\* the texts of the elements, one after the other
RECURSIVE ConcatTexts(_)
ConcatTexts(elements) ==
    IF elements = <<>> THEN <<>>
    ELSE Head(elements).text \o ConcatTexts(Tail(elements))

\* C30: for spans that lie inside the text, are not empty and do not
\* overlap, the elements renderText produces, put together in order, are
\* the original text; no element is empty; and every annotation appears as
\* exactly one highlighted element, whose text is the annotation's span.
C30_RenderCoversText ==
    (call.fn = "renderText" /\ call.pc = "returned"
        /\ ValidSpans(call.arg.originalText, call.arg.annotations)) =>
        LET text == call.arg.originalText
            anns == call.arg.annotations
            els == call.ret
            marked == {e \in 1..Len(els) : els[e].kind = "ann"}
        IN /\ ConcatTexts(els) = text
           /\ \A e \in 1..Len(els) : els[e].text # <<>>
           /\ Cardinality(marked) = Len(anns)
           /\ \A k \in 1..Len(anns) :
                 Cardinality({e \in marked :
                     els[e].text = [i \in 1..(anns[k].end_index - anns[k].start_index)
                                       |-> anns[k].start_index + i]}) = 1

\* two annotations given in reverse order, with plain text before, between
\* and after them
C30_Witness ==
    /\ call.fn = "renderText" /\ call.pc = "returned"
    /\ call.arg.originalText = <<1, 2, 3, 4>>
    /\ call.arg.annotations =
          <<[start_index |-> 3, end_index |-> 4], [start_index |-> 1, end_index |-> 2]>>
    /\ Len(call.ret) = 4
    /\ call.ret[2] = [kind |-> "ann", idx |-> 0, text |-> <<2>>]
    /\ call.ret[4] = [kind |-> "ann", idx |-> 1, text |-> <<4>>]

====
